---- MODULE Spec2Model ----
(***************************************************************************)
(* A model of telephish.go: one run of main (fetch the updates, select the *)
(* last one, extract its URL, show a toast notification), with the HTTP    *)
(* transport, the JSON body and the OLE platform calls as the environment. *)
(***************************************************************************)
EXTENDS Integers, Sequences, FiniteSets, TLC

\* ------------------------------------------------------------------------
\* Go values.  A nil pointer, a nil slice and a nil error are None; a
\* non-nil one is Some(v).  An empty non-nil slice is Some(<<>>).
\* ------------------------------------------------------------------------
None == <<>>
Some(v) == <<v>>
Get(o) == o[1]

\* len() of a Go slice: 0 for the nil slice.
LenOf(s) == IF s = None THEN 0 ELSE Len(Get(s))

\* ------------------------------------------------------------------------
\* Bounds of the model.
\* ------------------------------------------------------------------------
\* longest result list of a response body
MaxUpdates == 2
\* longest entity list of a message handed to ExtractURL on its own
MaxEntities == 3

\* ------------------------------------------------------------------------
\* JSON response bodies, as the decoder sees them.
\* ------------------------------------------------------------------------
Texts == {"hello", "bye"}
UpdateIDs == {1, 2}
Types == {"url", "bold"}
URLs == {"", "http://x.test", "https://b.example"}

\* a JSON entity object; "url" may be left out (omitempty)
JEnt(t, u) == [type |-> t, url |-> u]

\* the "entities" member of the JSON messages of the run: left out, and
\* lists that put url and other entities in several orders
JEntityLists ==
    { None,
      Some(<<JEnt("url", Some("http://x.test"))>>),
      Some(<<JEnt("bold", Some("https://b.example")), JEnt("url", Some("")),
             JEnt("url", Some("http://x.test"))>>),
      Some(<<JEnt("bold", None), JEnt("url", Some("https://b.example")),
             JEnt("url", Some("http://x.test"))>>) }

JMessages == [text : Texts, entities : JEntityLists]

JUpdates == [update_id : UpdateIDs, message : {None} \cup {Some(m) : m \in JMessages}]

SeqsUpTo(S, n) == UNION {[1..k -> S] : k \in 0..n}

JResults ==
    {[tag |-> t, items |-> <<>>] : t \in {"absent", "null", "string"}}
        \cup {[tag |-> "array", items |-> us] : us \in SeqsUpTo(JUpdates, MaxUpdates)}

\* A body is a stream of bytes; the decoder reads its first JSON value.
\* kind, the first value: "invalid" is bytes that begin no JSON value (an
\* HTML page), "truncated" a value the body ends in the middle of, "empty" a
\* body of no bytes, "null" and "array" a JSON null and a JSON array, "object"
\* a JSON object.
\* ok: the "ok" member of the object: left out, a boolean, or a string.
\* trailing: bytes that are no JSON follow the first value.
NoValue == [tag |-> "absent", items |-> <<>>]

Bodies ==
    {[kind |-> k, ok |-> "absent", result |-> NoValue, trailing |-> FALSE] :
        k \in {"invalid", "truncated", "empty"}}
        \cup {[kind |-> k, ok |-> "absent", result |-> NoValue, trailing |-> t] :
                k \in {"null", "array"}, t \in BOOLEAN}
        \cup [kind : {"object"}, ok : {"absent", "true", "false", "string"},
              result : JResults, trailing : BOOLEAN]

EmptyBody == [kind |-> "empty", ok |-> "absent", result |-> NoValue, trailing |-> FALSE]

\* what the transport does: http.Get returns an error; it returns a response
\* whose body arrives; and, no timeout being set, http.Get never returns
\* ("blocks"), or it returns and the body never arrives in full ("stalls")
NoResponse == [transport |-> "error", body |-> EmptyBody]
Blocks == [transport |-> "blocks", body |-> EmptyBody]
Stalls == [transport |-> "stalls", body |-> EmptyBody]

Responses == {NoResponse, Blocks, Stalls} \cup [transport : {"ok"}, body : Bodies]

Tokens == {"", "123:abc"}

\* ------------------------------------------------------------------------
\* encoding/json into the structs of the program.
\* ------------------------------------------------------------------------
\* Entity: a "url" member left out leaves URL at its zero value.  Offset and
\* Length, like MessageID, are decoded and never read; they are left out.
Entity(j) == [Type |-> j.type, URL |-> IF j.url = None THEN "" ELSE Get(j.url)]

\* TelegramMsg: "entities" left out leaves Entities nil.
TelegramMsg(j) ==
    [Text |-> j.text,
     Entities |-> IF j.entities = None THEN None
                  ELSE Some([i \in 1..Len(Get(j.entities)) |-> Entity(Get(j.entities)[i])])]

\* Update: "message" left out leaves Message nil.
Update(j) ==
    [UpdateID |-> j.update_id,
     Message |-> IF j.message = None THEN None ELSE Some(TelegramMsg(Get(j.message)))]

\* the errors GetUpdates can return
NetworkError(url) == [type |-> "*url.Error", msg |-> "Get \"" \o url \o "\": dial tcp: connection refused"]
SyntaxError == [type |-> "*json.SyntaxError", msg |-> "invalid character '<' looking for beginning of value"]
EOFError == [type |-> "*errors.errorString", msg |-> "EOF"]
UnexpectedEOFError == [type |-> "*errors.errorString", msg |-> "unexpected EOF"]
UnmarshalTypeError == [type |-> "*json.UnmarshalTypeError", msg |-> "json: cannot unmarshal into Go value"]
FailedToGetUpdates == [type |-> "*errors.errorString", msg |-> "failed to get updates"]

\* json.NewDecoder(resp.Body).Decode(&updates): the error, and the struct
\* {Ok, Result} as the decoder leaves it.  Only the first value of the body
\* is read: what follows it is not looked at.  A member that is left out or
\* null keeps its zero value; a member of the wrong JSON type is an error.
Decode(body) ==
    LET zero == [Ok |-> FALSE, Result |-> None]
        result == IF body.result.tag = "array"
                  THEN Some([i \in 1..Len(body.result.items) |-> Update(body.result.items[i])])
                  ELSE None
    IN  CASE body.kind = "invalid" -> [err |-> Some(SyntaxError), val |-> zero]
          [] body.kind = "truncated" -> [err |-> Some(UnexpectedEOFError), val |-> zero]
          [] body.kind = "empty" -> [err |-> Some(EOFError), val |-> zero]
          [] body.kind = "null" -> [err |-> None, val |-> zero]
          [] body.kind = "array" -> [err |-> Some(UnmarshalTypeError), val |-> zero]
          [] body.kind = "object" ->
                [err |-> IF body.ok = "string" \/ body.result.tag = "string"
                         THEN Some(UnmarshalTypeError) ELSE None,
                 val |-> [Ok |-> (body.ok = "true"), Result |-> result]]

RequestURL(token) == "https://api.telegram.org/bot" \o token \o "/getUpdates"

\* GetUpdates without the `if !updates.Ok` check
GetUpdatesReturnIgnoringOk(token, resp) ==
    IF resp.transport = "error"
    THEN [updates |-> None, err |-> Some(NetworkError(RequestURL(token)))]
    ELSE LET d == Decode(resp.body)
         IN  IF d.err # None THEN [updates |-> None, err |-> d.err]
             ELSE [updates |-> d.val.Result, err |-> None]

\* GetUpdates(token), given what http.Get returns: the pair (updates, err)
GetUpdatesReturn(token, resp) ==
    IF resp.transport = "error"
    THEN [updates |-> None, err |-> Some(NetworkError(RequestURL(token)))]
    ELSE LET d == Decode(resp.body)
         IN  IF d.err # None THEN [updates |-> None, err |-> d.err]
             ELSE IF ~d.val.Ok THEN [updates |-> None, err |-> Some(FailedToGetUpdates)]
             ELSE [updates |-> d.val.Result, err |-> None]

\* ------------------------------------------------------------------------
\* ExtractURL
\* ------------------------------------------------------------------------
RECURSIVE RangeEntities(_, _)
\* the loop `for _, entity := range message.Entities` from position i on
RangeEntities(entities, i) ==
    IF i > Len(entities) THEN ""
    ELSE IF entities[i].Type = "url" THEN entities[i].URL
    ELSE RangeEntities(entities, i + 1)

RECURSIVE RangeEntitiesNonEmpty(_, _)
RangeEntitiesNonEmpty(entities, i) ==
    IF i > Len(entities) THEN ""
    ELSE IF entities[i].Type = "url" /\ entities[i].URL # "" THEN entities[i].URL
    ELSE RangeEntitiesNonEmpty(entities, i + 1)

\* ExtractURL that skips a url entity whose URL is empty
ExtractURLNonEmpty(message) ==
    IF message.Entities # None THEN RangeEntitiesNonEmpty(Get(message.Entities), 1) ELSE ""

ExtractURL(message) ==
    IF message.Entities # None THEN RangeEntities(Get(message.Entities), 1) ELSE ""

\* ------------------------------------------------------------------------
\* ShowNotification: the platform calls, the handles and the deferred calls
\* ------------------------------------------------------------------------
Resources == {"OLE", "manager", "managerDispatch", "notifier", "content"}

\* what the platform reports when a call fails
OleErrors == {"Class not registered"}

\* a platform call: op, the handles it is made on, its string argument, the
\* resource it releases ("" when it releases none), and whether it succeeded
Call(op, on, arg, ok) == [op |-> op, on |-> on, arg |-> arg, rel |-> "", ok |-> ok]
Release(op, r) ==
    [op |-> op, on |-> IF r = "OLE" THEN {} ELSE {r}, arg |-> "", rel |-> r, ok |-> TRUE]

\* fmt.Sprintf of the toast document
ToastXML(title, message, url) ==
    "\n    <toast>\n        <visual>\n            <binding template='ToastGeneric'>\n"
    \o "                <text>" \o title \o "</text>\n"
    \o "                <text>" \o message \o "</text>\n"
    \o "            </binding>\n        </visual>\n        <actions>\n"
    \o "            <action content='Open browser' arguments='" \o url
    \o "' activationType='foreground'/>\n        </actions>\n    </toast>"

\* the `defer` statement: the call is pushed on the function's stack
Defer(stack, call) == Append(stack, call)

\* deferred calls run in the order they were deferred
RunDefersFIFO(stack) == stack

\* the deferred calls in the order the return runs them: last deferred first
RunDefers(stack) == [i \in 1..Len(stack) |-> stack[Len(stack) + 1 - i]]

\* ------------------------------------------------------------------------
\* State
\* ------------------------------------------------------------------------
VARIABLES
    pc,          \* where the run is: main's position, or ShowNotification's step
    token,       \* TELEGRAM_BOT_TOKEN as os.Getenv returns it
    requested,   \* the URLs requested with http.Get, in order
    response,    \* what http.Get returns when it is called
    updates,     \* main's updates
    err,         \* main's err after GetUpdates
    extracted,   \* the messages ExtractURL was called with, in order
    shown,       \* the arguments of the ShowNotification calls, in order
    snErr,       \* the error ShowNotification returns
    trace,       \* the platform calls of ShowNotification that returned, in order
    defers,      \* ShowNotification's stack of deferred calls
    acquired,    \* per resource, how often it was acquired
    released,    \* per resource, how often it was released
    exitStatus,  \* the exit status of the process (None while it runs)
    xMsg,        \* a message handed to ExtractURL on its own
    xOut         \* what ExtractURL returned for xMsg (None before the call)

vars == <<pc, token, requested, response, updates, err, extracted, shown, snErr,
          trace, defers, acquired, released, exitStatus, xMsg, xOut>>

snVars == <<snErr, trace, defers, acquired, released>>
fetchVars == <<requested, response, updates, err>>
xVars == <<xMsg, xOut>>

Init ==
    /\ pc = "main"
    /\ token \in Tokens
    /\ requested = <<>>
    /\ response \in Responses
    /\ updates = None
    /\ err = None
    /\ extracted = <<>>
    /\ shown = <<>>
    /\ snErr = None
    /\ trace = <<>>
    /\ defers = <<>>
    /\ acquired = [r \in Resources |-> 0]
    /\ released = [r \in Resources |-> 0]
    /\ exitStatus = None
    /\ xMsg = None
    /\ xOut = None

\* ------------------------------------------------------------------------
\* main
\* ------------------------------------------------------------------------
\* updates, err := GetUpdates(token)
GetUpdates ==
    /\ pc = "main"
    /\ requested' = Append(requested, RequestURL(token))
    /\ IF response.transport \in {"blocks", "stalls"}
       THEN /\ pc' = IF response.transport = "blocks" THEN "http.Get" ELSE "Decode"
            /\ UNCHANGED <<updates, err>>
       ELSE /\ updates' = GetUpdatesReturn(token, response).updates
            /\ err' = GetUpdatesReturn(token, response).err
            /\ pc' = "fetched"
    /\ UNCHANGED <<token, response, extracted, shown, snVars, exitStatus, xVars>>

\* log.Fatalf and a return from main end the process
Exit(status) ==
    /\ pc' = "exit"
    /\ exitStatus' = Some(status)

\* if err != nil { log.Fatalf("Error fetching updates: ...") }
FetchFailed ==
    /\ pc = "fetched"
    /\ err # None
    /\ Exit(1)
    /\ UNCHANGED <<token, fetchVars, extracted, shown, snVars, xVars>>

\* if len(updates) == 0 { log.Println("No new messages."); return }
NoNewMessages ==
    /\ pc = "fetched"
    /\ err = None
    /\ LenOf(updates) = 0
    /\ Exit(0)
    /\ UNCHANGED <<token, fetchVars, extracted, shown, snVars, xVars>>

\* the first update instead of the last
FirstUpdate(us) == us[1]

\* lastUpdate := updates[len(updates)-1]
LastUpdate(us) == us[Len(us)]

\* lastUpdate.Message == nil: log.Println("No message in the last update.")
NoMessage ==
    /\ pc = "fetched"
    /\ err = None
    /\ LenOf(updates) # 0
    /\ LastUpdate(Get(updates)).Message = None
    /\ Exit(0)
    /\ UNCHANGED <<token, fetchVars, extracted, shown, snVars, xVars>>

\* url == "": log.Println("No URL found in the last message.")
NoURL ==
    /\ pc = "fetched"
    /\ err = None
    /\ LenOf(updates) # 0
    /\ LastUpdate(Get(updates)).Message # None
    /\ LET message == Get(LastUpdate(Get(updates)).Message)
           url == ExtractURL(message)
       IN  /\ extracted' = Append(extracted, message)
           /\ url = ""
    /\ Exit(0)
    /\ UNCHANGED <<token, fetchVars, shown, snVars, xVars>>

\* main without the `if url != ""` check
CallShowNotificationAnyURL ==
    /\ pc = "fetched"
    /\ err = None
    /\ LenOf(updates) # 0
    /\ LastUpdate(Get(updates)).Message # None
    /\ LET message == Get(LastUpdate(Get(updates)).Message)
           url == ExtractURL(message)
       IN  /\ extracted' = Append(extracted, message)
           /\ shown' = Append(shown,
                  [title |-> "New Message",
                   message |-> "You received a new message: " \o message.Text,
                   url |-> url])
    /\ pc' = "CoInitialize"
    /\ UNCHANGED <<token, fetchVars, snVars, exitStatus, xVars>>

\* url != "": ShowNotification(title, content, url) is entered
CallShowNotification ==
    /\ pc = "fetched"
    /\ err = None
    /\ LenOf(updates) # 0
    /\ LastUpdate(Get(updates)).Message # None
    /\ LET message == Get(LastUpdate(Get(updates)).Message)
           url == ExtractURL(message)
       IN  /\ extracted' = Append(extracted, message)
           /\ url # ""
           /\ shown' = Append(shown,
                  [title |-> "New Message",
                   message |-> "You received a new message: " \o message.Text,
                   url |-> url])
    /\ pc' = "CoInitialize"
    /\ UNCHANGED <<token, fetchVars, snVars, exitStatus, xVars>>

\* ------------------------------------------------------------------------
\* ShowNotification, one platform call at a time
\* ------------------------------------------------------------------------
\* One call of the platform and the `if err != nil { return fmt.Errorf(...) }`
\* after it.  On success the call acquires `acquires` ("" for nothing), the
\* call `deferred` (None for none) is deferred and the function goes on at
\* `next`; on failure the function returns the error `failure: <cause>`.
\* The call is synchronous and has no timeout: it may also never return.
PlatformCall(op, on, arg, failure, acquires, deferred, next) ==
    /\ \/ /\ pc' = "blocked"
          /\ UNCHANGED <<trace, acquired, defers, snErr>>
       \/ \E ok \in BOOLEAN, cause \in OleErrors :
        /\ trace' = Append(trace, Call(op, on, arg, ok))
        /\ IF ok
           THEN /\ acquired' = [r \in Resources |->
                                  IF r = acquires THEN acquired[r] + 1 ELSE acquired[r]]
                /\ defers' = IF deferred = None THEN defers ELSE Defer(defers, Get(deferred))
                /\ pc' = next
                /\ UNCHANGED snErr
           ELSE /\ snErr' = Some(failure \o ": " \o cause)
                /\ pc' = "return"
                /\ UNCHANGED <<acquired, defers>>
    /\ UNCHANGED <<token, fetchVars, extracted, shown, released, exitStatus, xVars>>

\* err := ole.CoInitialize(0); defer ole.CoUninitialize()
CoInitialize ==
    /\ pc = "CoInitialize"
    /\ PlatformCall("CoInitialize", {}, "", "failed to initialize OLE", "OLE",
                    Some(Release("CoUninitialize", "OLE")), "CreateObject")

\* manager, err := oleutil.CreateObject(...); defer manager.Release()
CreateObject ==
    /\ pc = "CreateObject"
    /\ PlatformCall("CreateObject", {}, "Windows.UI.Notifications.ToastNotificationManager",
                    "failed to create ToastNotificationManager", "manager",
                    Some(Release("Release", "manager")), "QueryInterface")

\* managerDispatch, err := manager.QueryInterface(ole.IID_IDispatch);
\* defer managerDispatch.Release()
QueryInterface ==
    /\ pc = "QueryInterface"
    /\ PlatformCall("QueryInterface", {"manager"}, "IID_IDispatch",
                    "failed to query IDispatch", "managerDispatch",
                    Some(Release("Release", "managerDispatch")), "GetProperty")

\* notifier, err := oleutil.GetProperty(managerDispatch, "ToastNotifier");
\* defer notifier.Clear()
GetProperty ==
    /\ pc = "GetProperty"
    /\ PlatformCall("GetProperty", {"managerDispatch"}, "ToastNotifier",
                    "failed to get ToastNotifier", "notifier",
                    Some(Release("Clear", "notifier")), "GetTemplateContent")

\* GetTemplateContent without `defer content.Clear()`
GetTemplateContentNoDefer ==
    /\ pc = "GetTemplateContent"
    /\ PlatformCall("CallMethod", {"managerDispatch"}, "GetTemplateContent",
                    "failed to get template content", "content", None, "PutProperty")

\* content, err := oleutil.CallMethod(managerDispatch, "GetTemplateContent", 2);
\* defer content.Clear()
GetTemplateContent ==
    /\ pc = "GetTemplateContent"
    /\ PlatformCall("CallMethod", {"managerDispatch"}, "GetTemplateContent",
                    "failed to get template content", "content",
                    Some(Release("Clear", "content")), "PutProperty")

\* PutProperty with its error dropped: the function goes on to Show
PutPropertyUnchecked ==
    /\ pc = "PutProperty"
    /\ \E ok \in BOOLEAN :
        trace' = Append(trace, Call("PutProperty", {"content"},
                     ToastXML(shown[Len(shown)].title, shown[Len(shown)].message,
                              shown[Len(shown)].url), ok))
    /\ pc' = "Show"
    /\ UNCHANGED <<token, fetchVars, extracted, shown, snErr, defers, acquired, released,
                   exitStatus, xVars>>

\* oleutil.PutProperty(content.ToIDispatch(), "InnerXml", toastXML)
PutProperty ==
    /\ pc = "PutProperty"
    /\ LET a == shown[Len(shown)]
       IN  PlatformCall("PutProperty", {"content"}, ToastXML(a.title, a.message, a.url),
                        "failed to set inner XML", "", None, "Show")

\* oleutil.CallMethod(notifier.ToIDispatch(), "Show", content.ToIDispatch());
\* return nil
Show ==
    /\ pc = "Show"
    /\ PlatformCall("CallMethod", {"notifier", "content"}, "Show",
                    "failed to show notification", "", None, "return")

\* ShowNotification is returning: the next deferred call is made.  It is a
\* platform call like the others: it has no timeout and may never return.
\* defers' is the stack of the calls still to run.
RunDeferred ==
    /\ pc = "return"
    /\ defers # <<>>
    /\ \/ /\ pc' = "blocked"
          /\ UNCHANGED <<trace, released, defers>>
       \/ /\ trace' = Append(trace, Head(RunDefers(defers)))
          /\ released' = [released EXCEPT ![Head(RunDefers(defers)).rel] = @ + 1]
          /\ defers' = RunDefers(Tail(RunDefers(defers)))
          /\ UNCHANGED pc
    /\ UNCHANGED <<token, fetchVars, extracted, shown, snErr, acquired, exitStatus, xVars>>

\* every deferred call has returned: ShowNotification returns to main
Return ==
    /\ pc = "return"
    /\ defers = <<>>
    /\ pc' = "returned"
    /\ UNCHANGED <<token, fetchVars, extracted, shown, snVars, exitStatus, xVars>>

\* a failed notification that ends the process with status 0
NotificationFailedExitZero ==
    /\ pc = "returned"
    /\ snErr # None
    /\ Exit(0)
    /\ UNCHANGED <<token, fetchVars, extracted, shown, snVars, xVars>>

\* if err := ShowNotification(...); err != nil { log.Fatalf(...) }
NotificationFailed ==
    /\ pc = "returned"
    /\ snErr # None
    /\ Exit(1)
    /\ UNCHANGED <<token, fetchVars, extracted, shown, snVars, xVars>>

\* ShowNotification returned nil: main returns
NotificationShown ==
    /\ pc = "returned"
    /\ snErr = None
    /\ Exit(0)
    /\ UNCHANGED <<token, fetchVars, extracted, shown, snVars, xVars>>

Next ==
    \/ GetUpdates
    \/ FetchFailed
    \/ NoNewMessages
    \/ NoMessage
    \/ NoURL
    \/ CallShowNotification
    \/ CoInitialize
    \/ CreateObject
    \/ QueryInterface
    \/ GetProperty
    \/ GetTemplateContent
    \/ PutProperty
    \/ Show
    \/ RunDeferred
    \/ Return
    \/ NotificationFailed
    \/ NotificationShown

Spec == Init /\ [][Next]_vars

\* every step that can be taken is taken: the program runs to its end
FairSpec == Spec /\ WF_vars(Next)

\* ------------------------------------------------------------------------
\* ExtractURL on its own, over every message within the bounds
\* ------------------------------------------------------------------------
Entities == [Type : Types, URL : URLs]

Messages ==
    [Text : Texts,
     Entities : {None} \cup {Some(es) : es \in SeqsUpTo(Entities, MaxEntities)}]

InitExtract ==
    /\ pc = "ExtractURL"
    /\ token = ""
    /\ requested = <<>>
    /\ response = NoResponse
    /\ updates = None
    /\ err = None
    /\ extracted = <<>>
    /\ shown = <<>>
    /\ snErr = None
    /\ trace = <<>>
    /\ defers = <<>>
    /\ acquired = [r \in Resources |-> 0]
    /\ released = [r \in Resources |-> 0]
    /\ exitStatus = None
    /\ xMsg \in {Some(m) : m \in Messages}
    /\ xOut = None

CallExtractURL ==
    /\ pc = "ExtractURL"
    /\ xOut' = Some(ExtractURL(Get(xMsg)))
    /\ pc' = "extracted"
    /\ UNCHANGED <<token, fetchVars, extracted, shown, snVars, exitStatus, xMsg>>

NextExtract == CallExtractURL

SpecExtract == InitExtract /\ [][NextExtract]_vars

\* ------------------------------------------------------------------------
\* Properties
\* ------------------------------------------------------------------------
\* ShowNotification has returned (to main, which may since have exited)
Returned == pc \in {"returned", "exit"} /\ shown # <<>>

\* C1: when ShowNotification has returned, on every path, each resource was
\* released exactly as often as it was acquired, and at most once.
C1_ReleasedAsAcquired ==
    Returned => \A r \in Resources : released[r] = acquired[r] /\ acquired[r] <= 1

\* a failed call that had acquired all five resources
C1_Witness ==
    /\ pc = "returned"
    /\ snErr # None
    /\ \A r \in Resources : acquired[r] = 1 /\ released[r] = 1

\* C2: ExtractURL returns the URL member of the first entity of type "url",
\* whatever that member and the members of other entities are, and "" when
\* the entities are nil, empty or hold no entity of type "url".
C2_FirstURLEntity ==
    xOut # None =>
        LET m == Get(xMsg)
            out == Get(xOut)
        IN  IF m.Entities = None \/ \A i \in 1..LenOf(m.Entities) : Get(m.Entities)[i].Type # "url"
            THEN out = ""
            ELSE \E i \in 1..LenOf(m.Entities) :
                    /\ Get(m.Entities)[i].Type = "url"
                    /\ \A j \in 1..(i - 1) : Get(m.Entities)[j].Type # "url"
                    /\ out = Get(m.Entities)[i].URL

\* another entity with a URL, then a url entity with an empty URL, then a url
\* entity with a non-empty one: the empty one is returned
C2_Witness ==
    /\ xOut = Some("")
    /\ LenOf(Get(xMsg).Entities) = 3
    /\ Get(Get(xMsg).Entities)[1] = [Type |-> "bold", URL |-> "https://b.example"]
    /\ Get(Get(xMsg).Entities)[2] = [Type |-> "url", URL |-> ""]
    /\ Get(Get(xMsg).Entities)[3] = [Type |-> "url", URL |-> "http://x.test"]

\* the response is an envelope (a JSON object whose "result", if any, is a
\* list) with "ok": false
FalseEnvelope ==
    /\ pc \notin {"main", "http.Get", "Decode"}
    /\ response.transport = "ok"
    /\ response.body.kind = "object"
    /\ response.body.ok = "false"
    /\ response.body.result.tag # "string"

\* C3: for an envelope with "ok": false, whatever its result list, GetUpdates
\* returns the error "failed to get updates" and no update list.
C3_FalseEnvelopeFails ==
    FalseEnvelope => err = Some(FailedToGetUpdates) /\ updates = None

\* an envelope with "ok": false and a result list of two updates
C3_Witness ==
    /\ pc = "fetched"
    /\ FalseEnvelope
    /\ Len(response.body.result.items) = 2
    /\ err # None

\* the last element of the fetched list, by position
LastByPosition == Get(updates)[Len(Get(updates))]

\* the fetch succeeded, and the last update has a message with a URL
LastHasURL ==
    /\ pc \notin {"main", "http.Get", "Decode", "fetched"}
    /\ err = None
    /\ LenOf(updates) > 0
    /\ LastByPosition.Message # None
    /\ ExtractURL(Get(LastByPosition.Message)) # ""

\* C4: when the last update by position has a message with a URL u, the
\* Notifier is called with "New Message", "You received a new message: "
\* followed by that message's text, and u, and with nothing else.
C4_NotifiesLast ==
    LastHasURL =>
        shown = <<[title |-> "New Message",
                   message |-> "You received a new message: "
                                   \o Get(LastByPosition.Message).Text,
                   url |-> ExtractURL(Get(LastByPosition.Message))]>>

\* an earlier update with the larger identifier, another text and another URL
C4_Witness ==
    /\ LastHasURL
    /\ Len(Get(updates)) = 2
    /\ Get(updates)[1].UpdateID > Get(updates)[2].UpdateID
    /\ Get(updates)[1].Message # None
    /\ Get(Get(updates)[1].Message).Text = "bye"
    /\ ExtractURL(Get(Get(updates)[1].Message)) = "https://b.example"
    /\ shown[1].message = "You received a new message: hello"
    /\ shown[1].url = "http://x.test"

\* the fetch succeeded and there is nothing to show
NothingToShow ==
    /\ pc \notin {"main", "http.Get", "Decode", "fetched"}
    /\ err = None
    /\ \/ LenOf(updates) = 0
       \/ LastByPosition.Message = None
       \/ ExtractURL(Get(LastByPosition.Message)) = ""

\* C5: when the fetch succeeded and the list is empty, or its last message is
\* nil or has no URL, the process ends with status 0 and the Notifier is not
\* called; the Notifier is never called with an empty url.
C5_AbsenceExitsZero ==
    /\ NothingToShow => pc = "exit" /\ exitStatus = Some(0) /\ shown = <<>>
    /\ \A i \in 1..Len(shown) : shown[i].url # ""

\* the last message's first url entity has an empty URL
C5_Witness ==
    /\ NothingToShow
    /\ LenOf(updates) = 2
    /\ LastByPosition.Message # None
    /\ LenOf(Get(LastByPosition.Message).Entities) = 3
    /\ exitStatus = Some(0)

\* the body is no JSON text
NotJSON ==
    \/ response.body.kind \in {"invalid", "truncated", "empty"}
    \/ response.body.trailing

\* the first value of the body is one the decoder accepts
Decodes ==
    /\ response.body.kind \in {"null", "object"}
    /\ response.body.ok # "string"
    /\ response.body.result.tag # "string"

\* the body has the expected shape {ok: bool, result: [...]}, "result"
\* possibly missing
MatchesShape ==
    /\ response.body.kind = "object"
    /\ response.body.ok \in {"true", "false"}
    /\ response.body.result.tag # "string"
    /\ ~response.body.trailing

DecodeErrors ==
    {Some(SyntaxError), Some(EOFError), Some(UnexpectedEOFError), Some(UnmarshalTypeError)}

\* C6: a body that is no JSON fails with a decode error, which is not the
\* API error; the transport error, the decode errors and the API error
\* differ; a body that decodes and does not match the expected shape is not
\* reported as the API error.
C6_DecodeErrorDistinct ==
    (pc \notin {"main", "http.Get", "Decode"}) =>
        /\ response.transport = "error" =>
                err \notin ({None, Some(FailedToGetUpdates)} \cup DecodeErrors)
        /\ (response.transport = "ok" /\ NotJSON) =>
                err \in DecodeErrors /\ err # Some(FailedToGetUpdates)
        /\ (response.transport = "ok" /\ Decodes /\ ~MatchesShape) =>
                err # Some(FailedToGetUpdates)

\* C7: the exit status is non-zero exactly when GetUpdates or ShowNotification
\* returned an error; after an error of GetUpdates neither ExtractURL nor
\* ShowNotification is called.
C7_ExitStatus ==
    /\ pc = "exit" =>
        /\ exitStatus \in {Some(0), Some(1)}
        /\ exitStatus # Some(0) <=> (err # None \/ snErr # None)
    /\ err # None => extracted = <<>> /\ shown = <<>>

\* the process ended after a failed notification
C7_Witness ==
    /\ pc = "exit"
    /\ err = None
    /\ snErr # None
    /\ exitStatus = Some(1)

\* the seven steps of ShowNotification and the errors that name them
Steps == <<"CoInitialize", "CreateObject", "QueryInterface", "GetProperty",
           "GetTemplateContent", "PutProperty", "Show">>

StepErrors == <<"failed to initialize OLE", "failed to create ToastNotificationManager",
                "failed to query IDispatch", "failed to get ToastNotifier",
                "failed to get template content", "failed to set inner XML",
                "failed to show notification">>

IsStepCall(c) == c.rel = ""
StepCalls == SelectSeq(trace, IsStepCall)
StepName(c) == IF c.op = "CallMethod" THEN c.arg ELSE c.op

\* snErr is the error of step k
ErrorOfStep(k) == \E cause \in OleErrors : snErr = Some(StepErrors[k] \o ": " \o cause)

\* C8: the steps run in the fixed order; only the last step made can have
\* failed; the error returned names that step and no other; the call
\* returns nil only after all seven steps succeeded.
C8_StepsInOrder ==
    /\ Len(StepCalls) <= 7
    /\ \A i \in 1..Len(StepCalls) : StepName(StepCalls[i]) = Steps[i]
    /\ \A i \in 1..(Len(StepCalls) - 1) : StepCalls[i].ok
    /\ snErr # None <=> (StepCalls # <<>> /\ ~StepCalls[Len(StepCalls)].ok)
    /\ snErr # None =>
        \A k \in 1..7 : ErrorOfStep(k) <=> k = Len(StepCalls)
    /\ (Returned /\ snErr = None) =>
        Len(StepCalls) = 7 /\ \A i \in 1..7 : StepCalls[i].ok

\* the fifth step failed: four steps before it, none after it
C8_Witness ==
    /\ pc = "returned"
    /\ snErr = Some("failed to get template content: Class not registered")
    /\ Len(StepCalls) = 5

\* at most one fetch and one Notifier call; once main has called GetUpdates
\* there is exactly one fetch; the Notifier is called only after a successful
\* fetch
CallsAtMostOnce ==
    /\ Len(requested) <= 1
    /\ Len(shown) <= 1
    /\ pc # "main" => Len(requested) = 1
    /\ shown # <<>> => Len(requested) = 1 /\ err = None /\ updates # None /\ response.transport = "ok"

\* C9: every run ends, with exactly one fetch (also with an empty token) and
\* at most one Notifier call, made only after the fetch succeeded.
C9_TerminatesOneFetch ==
    /\ <>(pc = "exit")
    /\ []CallsAtMostOnce
    /\ [](pc = "exit" => Len(requested) = 1)

\* the order in which the resources are acquired
Rank(r) ==
    CASE r = "OLE" -> 1
      [] r = "manager" -> 2
      [] r = "managerDispatch" -> 3
      [] r = "notifier" -> 4
      [] r = "content" -> 5

\* C10: releases run in the reverse of the acquisition order; no call is
\* made on a handle after its release; OLE is uninitialised after every
\* acquired handle was released.
C10_ReverseTeardown ==
    \A i \in 1..Len(trace) : trace[i].rel # "" =>
        /\ \A j \in (i + 1)..Len(trace) :
            /\ trace[i].rel \notin trace[j].on
            /\ trace[j].rel # "" => Rank(trace[j].rel) < Rank(trace[i].rel)
        /\ trace[i].rel = "OLE" =>
            \A r \in Resources \ {"OLE"} :
                acquired[r] > 0 => \E j \in 1..(i - 1) : trace[j].rel = r

\* a call that acquired everything: five releases, content first, OLE last
C10_Witness ==
    /\ pc = "returned"
    /\ Len(trace) >= 5
    /\ trace[Len(trace) - 4].rel = "content"
    /\ trace[Len(trace) - 3].rel = "notifier"
    /\ trace[Len(trace) - 2].rel = "managerDispatch"
    /\ trace[Len(trace) - 1].rel = "manager"
    /\ trace[Len(trace)].rel = "OLE"

====
